---- MODULE Spec2Model ----
(***************************************************************************)
(* A model of ADB Manager's asynchronous core: the global busy flag of     *)
(* utils/async_helper.py, the device polling loop of                       *)
(* core/device_manager.py, the command execution of utils/adb_wrapper.py,  *)
(* the filter handling of core/logcat_streamer.py and the session          *)
(* handling of core/shell_manager.py.                                      *)
(*                                                                         *)
(* The Qt/asyncio event loop is single threaded: every action below is one *)
(* callback or one step of a coroutine between two awaits, and the loop    *)
(* chooses which ready callback runs next.                                 *)
(***************************************************************************)
EXTENDS Integers, Sequences, FiniteSets, Bags, TLC

VARIABLES
    async_busy,        \* async_helper._async_busy
    tasks,             \* the loop's unfinished tasks created by safe_ensure_future (a bag)
    monitoring,        \* DeviceManager._monitoring
    check_in_progress, \* DeviceManager._check_in_progress
    timers,            \* pending QTimer.singleShot(delay, _on_timer_tick) calls
    devices,           \* DeviceManager._devices: serial -> state, Absent when no key
    host,              \* the devices attached to the host: serial -> state
    lastTick,          \* what the most recent _on_timer_tick saw and did
    emitted,           \* the signals of the most recent completed device check
    uiCalls,           \* UI-triggered safe_ensure_future calls made so far
    server_started,    \* ADBWrapper._server_started
    call,              \* the most recent call of a manager operation and its outcome
    streaming,         \* LogcatStreamer._streaming
    filters,           \* LogcatStreamer._filters: key -> value, NoValue when no key
    stream,            \* the logcat stream started last: its command and filters
    viewer_device,     \* LogcatViewer.current_device
    viewer_pending,    \* the coroutine of LogcatViewer waiting to run
    active,            \* ShellManager._active
    process,           \* ShellManager._process and whether the subprocess has exited
    read_task,         \* ShellManager._read_task: where _read_output stands
    current_device,    \* ShellManager._current_device
    command_history,   \* ShellManager._command_history
    history_index,     \* ShellManager._history_index
    shell_stopped,     \* shell_stopped was emitted since the session started
    stop_called,       \* stop_shell was called since the session started
    adb_list,          \* the serials `adb devices -l` lists, in the order they attached
    wireless,          \* the most recent DeviceManager.connect_wireless call
    refresh,           \* the most recent refresh the user asked the main window for
    parsed,            \* the most recent line given to LogcatStreamer._parse_log_line and its result
    combo,             \* MainWindow.device_combo: the devices it lists and the one selected
    term_device,       \* TerminalWidget.current_device
    current_path,      \* TerminalWidget.current_path
    is_root,           \* TerminalWidget.is_root
    term_request,      \* the device of the most recent set_device made while a shell was active
    last_step,         \* what the terminal did last: a cd, a shell start or an output, and the path before
    mdns               \* WirelessDialog: its mDNS fields, its threads and what zeroconf has registered

pollVars == <<async_busy, tasks, monitoring, check_in_progress, timers,
              devices, host, lastTick, emitted, uiCalls>>

adbVars == <<server_started, call>>

logVars == <<streaming, filters, stream, viewer_device, viewer_pending>>

shellVars == <<active, process, read_task, current_device, command_history,
               history_index, shell_stopped, stop_called>>

wirelessVars == <<adb_list, wireless>>

refreshVars == <<refresh>>

parseVars == <<parsed>>

termVars == <<combo, term_device, current_path, is_root, term_request, last_step>>

mdnsVars == <<mdns>>

widgetVars == <<parseVars, termVars, mdnsVars>>

uiVars == <<wirelessVars, refreshVars, widgetVars>>

vars == <<pollVars, adbVars, logVars, shellVars, uiVars>>

----------------------------------------------------------------------------
(* Bounds of the model *)

MaxChains == 2
MaxUiTasks == 1
MaxUiOps == 2
MaxHistory == 2
MaxTagLen == 2
MaxPidLen == 2
MaxMessageLen == 2
MaxTermTasks == 1
MaxMdnsThreads == 2
MaxDepth == 2

(* Program constants *)

InitialDelay == 100
StampLen == 18
MinLineLen == 20
MinThreadtimeLen == 30
MaxSplit == 4
RetryDelay == 500
DefaultInterval == 2000

SerialOrder == <<"s1">>
Serials == {SerialOrder[i] : i \in 1..Len(SerialOrder)}
Absent == "absent"
DeviceStates == {"device", "offline", "unauthorized"}

(* A task of the event loop: the coroutine it wraps, where that coroutine   *)
(* stands, and what it holds in its local variables                         *)
NewTask(kind) == [kind |-> kind, pc |-> "scheduled", scan |-> <<>>, hostAt |-> <<>>]

----------------------------------------------------------------------------
(* utils/adb_wrapper.py: one adb invocation and what execute makes of it.   *)
(* The outcome of a spawned adb process is an input: whether the spawn      *)
(* succeeded, whether communicate() outran the timeout, the return code,    *)
(* and the texts on stdout and stderr.  A text is modelled by the set of    *)
(* the phrases the code searches for that occur in it (in lower case, as    *)
(* the code lowers the text before searching).                              *)

StderrPhrases == {"no devices", "device not found", "unauthorized",
                  "more than one device"}
StdoutPhrases == {"successfully paired", "connected", "Success"}

NoException == "none"

(* adb prints at most one of the result messages on stdout *)
StdoutTexts == {{}} \cup {{p} : p \in StdoutPhrases}

(* A process that could not be spawned, or that was cut off by the timeout, *)
(* hands back no output.                                                    *)
AdbOutcomes ==
    [spawn : {TRUE}, timeout : {FALSE}, rc : {0, 1},
     stderr : SUBSET StderrPhrases, stdout : StdoutTexts]
    \cup [spawn : {FALSE}, timeout : {FALSE}, rc : {1}, stderr : {{}}, stdout : {{}}]
    \cup [spawn : {TRUE}, timeout : {TRUE}, rc : {1}, stderr : {{}}, stdout : {{}}]

(* The outcomes the polling loop is run against: success, a failed spawn,   *)
(* a timeout, and an error text on stderr                                   *)
OkOutcome ==
    [spawn |-> TRUE, timeout |-> FALSE, rc |-> 0, stderr |-> {}, stdout |-> {}]
ScanOutcomes ==
    {OkOutcome,
     [OkOutcome EXCEPT !.spawn = FALSE, !.rc = 1],
     [OkOutcome EXCEPT !.timeout = TRUE, !.rc = 1],
     [OkOutcome EXCEPT !.rc = 1, !.stderr = {"unauthorized"}]}

(* ADBWrapper._check_errors: the exception it raises, or NoException *)
check_errors(stderr) ==
    IF "no devices" \in stderr \/ "device not found" \in stderr
    THEN "DeviceNotFoundError"
    ELSE IF "unauthorized" \in stderr
    THEN "DeviceUnauthorizedError"
    ELSE IF "more than one device" \in stderr
    THEN "MultipleDevicesError"
    ELSE NoException

(* The body of execute's try block: what it raises, or NoException *)
execute_body(out, skip_server_check) ==
    IF ~out.spawn THEN "OSError"
    ELSE IF out.timeout THEN "TimeoutError"
    ELSE IF ~skip_server_check THEN check_errors(out.stderr)
    ELSE NoException

(* execute's handlers: asyncio.TimeoutError is re-raised, every other       *)
(* Exception, those of _check_errors included, leaves as ADBError.          *)
execute_handlers(raised) ==
    IF raised = NoException THEN NoException
    ELSE IF raised = "TimeoutError" THEN "TimeoutError"
    ELSE "ADBError"

(* ADBWrapper.execute: the exception the caller observes and the result *)
execute(out, skip_server_check) ==
    LET exc == execute_handlers(execute_body(out, skip_server_check))
    IN  [exc |-> exc, stdout |-> out.stdout, stderr |-> out.stderr,
         rc |-> out.rc]

(* The table `adb devices -l` prints for the attached devices, one row of   *)
(* blank-separated fields per device, after the header line.                *)
RECURSIVE ListingFrom(_, _)
ListingFrom(h, i) ==
    IF i > Len(SerialOrder) THEN <<>>
    ELSE LET s == SerialOrder[i]
         IN  (IF h[s] = Absent THEN <<>> ELSE << <<s, h[s]>> >>)
             \o ListingFrom(h, i + 1)

HostListing(h) == ListingFrom(h, 1)

(* ADBWrapper.get_devices: rows with fewer than two fields are skipped *)
RECURSIVE parse_rows(_)
parse_rows(rows) ==
    IF rows = <<>> THEN <<>>
    ELSE LET parts == Head(rows)
         IN  (IF Len(parts) < 2 THEN <<>>
              ELSE << [serial |-> parts[1], state |-> parts[2]] >>)
             \o parse_rows(Tail(rows))

get_devices(out, rows) ==
    LET r == execute(out, FALSE)
    IN  IF r.exc # NoException
        THEN [exc |-> r.exc, value |-> <<>>]
        ELSE [exc |-> NoException, value |-> parse_rows(rows)]

(* DeviceManager.scan_devices: any exception becomes the empty list *)
scan_devices(out, rows) ==
    LET r == get_devices(out, rows)
    IN  IF r.exc # NoException THEN <<>> ELSE r.value

(* Values a Python call hands back: a bool, a list or None *)
Bool(b) == [kind |-> "bool", bool |-> b, list |-> <<>>]
List(l) == [kind |-> "list", bool |-> FALSE, list |-> l]
Returned(v, sig) == [exc |-> NoException, value |-> v, signal |-> sig]
Raised(e) == [exc |-> e, value |-> Bool(FALSE), signal |-> <<>>]

(* `except Exception`: every modelled exception derives from Exception *)
IsException(e) == e # NoException

(* ADBWrapper.shell: stdout of `adb -s <device> shell <command>` *)
adb_shell(out) ==
    LET r == execute(out, FALSE)
    IN  IF r.exc # NoException THEN Raised(r.exc)
        ELSE Returned(r.stdout, <<>>)

(* ADBWrapper.pair_wireless *)
adb_pair_wireless(out) ==
    LET r == execute(out, FALSE)
    IN  IF IsException(r.exc) THEN Returned(Bool(FALSE), <<>>)
        ELSE Returned(Bool("successfully paired" \in r.stdout), <<>>)

(* ADBWrapper.connect_wireless *)
adb_connect_wireless(out) ==
    LET r == execute(out, FALSE)
    IN  IF IsException(r.exc) THEN Returned(Bool(FALSE), <<>>)
        ELSE Returned(Bool("connected" \in r.stdout), <<>>)

(* ADBWrapper.push_file *)
adb_push_file(out) ==
    LET r == execute(out, FALSE)
    IN  IF IsException(r.exc) THEN Returned(Bool(FALSE), <<>>)
        ELSE Returned(Bool(TRUE), <<>>)

(* ADBWrapper.pull_file *)
adb_pull_file(out) ==
    LET r == execute(out, FALSE)
    IN  IF IsException(r.exc) THEN Returned(Bool(FALSE), <<>>)
        ELSE Returned(Bool(TRUE), <<>>)

(* ADBWrapper.install_apk *)
adb_install_apk(out) ==
    LET r == execute(out, FALSE)
    IN  IF IsException(r.exc) THEN Returned(Bool(FALSE), <<>>)
        ELSE Returned(Bool("Success" \in r.stdout), <<>>)

(* ADBWrapper.uninstall_package *)
adb_uninstall_package(out) ==
    LET r == execute(out, FALSE)
    IN  IF IsException(r.exc) THEN Returned(Bool(FALSE), <<>>)
        ELSE Returned(Bool("Success" \in r.stdout), <<>>)

(* DeviceManager.pair_wireless *)
dm_pair_wireless(out) == adb_pair_wireless(out)

(* The lines `ls -la` prints, each split into its blank-separated fields *)
LsOutputs ==
    {<<>>,
     << <<"total", "12">>,
        <<"drwxrws---", "2", "u0_a209", "media_rw", "3452", "2026-02-05", "08:56", "Alarms">> >>,
     << <<"drwxr-xr-x", "2", "root", "root", "4096", "2026-02-05", "08:56", ".">>,
        <<"-rw-rw----", "1", "root", "root", "17", "2026-02-05", "08:56", "a.txt">> >>}

RECURSIVE parse_ls(_)
parse_ls(lines) ==
    IF lines = <<>> THEN <<>>
    ELSE LET parts == Head(lines)
         IN  (IF parts[1] = "total" \/ Len(parts) < 8 \/ parts[8] \in {".", ".."}
              THEN <<>>
              ELSE << [name |-> parts[8], permissions |-> parts[1]] >>)
             \o parse_ls(Tail(lines))

(* A listing that lets the failure of adb shell leave the method *)
fm_list_directory_no_except(out, lines) ==
    LET r == adb_shell(out)
    IN  IF r.exc # NoException THEN Raised(r.exc)
        ELSE Returned(List(parse_ls(lines)), <<>>)

(* FileManager.list_directory *)
fm_list_directory(out, lines) ==
    LET r == adb_shell(out)
    IN  IF IsException(r.exc) THEN Returned(List(<<>>), <<>>)
        ELSE Returned(List(parse_ls(lines)), <<>>)

(* FileManager.push_file: local_path.stat() raises when the file is gone;   *)
(* signal is the success flag of each transfer_complete it emits.           *)
fm_push_file(out, stat_ok) ==
    IF ~stat_ok THEN Returned(Bool(FALSE), <<FALSE>>)
    ELSE LET r == adb_push_file(out)
         IN  IF IsException(r.exc) THEN Returned(Bool(FALSE), <<FALSE>>)
             ELSE Returned(r.value, <<r.value.bool>>)

(* FileManager.pull_file *)
fm_pull_file(out) ==
    LET r == adb_pull_file(out)
    IN  IF IsException(r.exc) THEN Returned(Bool(FALSE), <<FALSE>>)
        ELSE Returned(r.value, <<r.value.bool>>)

(* The lines `pm list packages` prints: whether the line starts with        *)
(* 'package:' and the name after it                                         *)
PackageOrder == <<"com.a", "com.b">>
PmOutputs ==
    {<<>>,
     << [prefix |-> TRUE, name |-> "com.b"], [prefix |-> TRUE, name |-> "com.a"] >>,
     << [prefix |-> FALSE, name |-> "WARNING"], [prefix |-> TRUE, name |-> "com.a"] >>}

(* The package lines, sorted by display name *)
parse_packages(lines) ==
    LET names == {lines[i].name : i \in {j \in 1..Len(lines) : lines[j].prefix}}
    IN  SelectSeq(PackageOrder, LAMBDA n : n \in names)

(* AppManager.list_packages *)
am_list_packages(out, lines) ==
    LET r == adb_shell(out)
    IN  IF IsException(r.exc) THEN Returned(List(<<>>), <<>>)
        ELSE Returned(List(parse_packages(lines)), <<>>)

(* AppManager.install_apk: signal is the flag of install_complete *)
am_install_apk(out) ==
    LET r == adb_install_apk(out)
    IN  IF IsException(r.exc) THEN Returned(Bool(FALSE), <<FALSE>>)
        ELSE Returned(r.value, <<r.value.bool>>)

(* AppManager.uninstall_package *)
am_uninstall_package(out) ==
    LET r == adb_uninstall_package(out)
    IN  IF IsException(r.exc) THEN Returned(Bool(FALSE), <<>>)
        ELSE r

(* DeviceManager.scan_devices as a call of its own *)
dm_scan_devices(out, rows) == Returned(List(scan_devices(out, rows)), <<>>)

NoCall == [op |-> "none", out |-> OkOutcome, exc |-> NoException,
           value |-> Bool(FALSE), signal |-> <<>>]

(* Device.is_authorized *)
is_authorized(device) == device.state = "device"


----------------------------------------------------------------------------
(* utils/async_helper.py and core/device_manager.py: the polling loop *)

Tasks == BagToSet(tasks)
Without(t) == tasks (-) SetToBag({t})
Replace(t, u) == Without(t) (+) SetToBag({u})

Count(S) == BagCardinality([t \in S |-> CopiesIn(t, tasks)])

CheckTasks == {t \in Tasks : t.kind = "check"}
UiTasks == {t \in Tasks : t.kind = "ui"}

(* Coroutines handed to safe_ensure_future whose wrapper has started and    *)
(* not yet finished                                                         *)
InProgress == {t \in Tasks : t.pc # "scheduled"}

(* Executions of _check_devices past the entry guard and not yet finished *)
ChecksInProgress ==
    {t \in Tasks : t.kind = "check" /\ t.pc \in {"get_devices", "get_device_info"}}

(* is_async_busy *)
is_async_busy == async_busy

(* QTimer.singleShot(d, self._on_timer_tick): one more pending timer.  Time *)
(* is not modelled: a pending timer may fire at any later moment.           *)
Arm(tm, d) == tm + 1

(* safe_ensure_future(coro): the coroutine is dropped when the flag is set  *)
(* or when asyncio.ensure_future raises RuntimeError (schedulable = FALSE); *)
(* otherwise wrapped() becomes a task that has not run yet.  task tells    *)
(* whether a Task (TRUE) or None (FALSE) is returned.                       *)
safe_ensure_future(kind, schedulable) ==
    IF async_busy THEN [task |-> FALSE, tasks |-> tasks]
    ELSE IF ~schedulable THEN [task |-> FALSE, tasks |-> tasks]
    ELSE [task |-> TRUE, tasks |-> tasks (+) SetToBag({NewTask(kind)})]

(* A guard that forgets the check in progress *)
tick_skips_flag_only == is_async_busy

(* The guard of _on_timer_tick *)
tick_skips == check_in_progress \/ is_async_busy

(* DeviceManager.start_monitoring *)
start_monitoring ==
    /\ UNCHANGED <<adbVars, logVars, shellVars, uiVars>>
    /\ ~monitoring
    /\ timers + Count(CheckTasks) < MaxChains
    /\ monitoring' = TRUE
    /\ timers' = Arm(timers, InitialDelay)
    /\ UNCHANGED <<async_busy, tasks, check_in_progress, devices, host,
                   lastTick, emitted, uiCalls>>

(* DeviceManager.stop_monitoring *)
stop_monitoring ==
    /\ UNCHANGED <<adbVars, logVars, shellVars, uiVars>>
    /\ monitoring
    /\ monitoring' = FALSE
    /\ UNCHANGED <<async_busy, tasks, check_in_progress, timers, devices, host,
                   lastTick, emitted, uiCalls>>

(* DeviceManager._on_timer_tick, run by a pending timer *)
on_timer_tick(schedulable) ==
    /\ UNCHANGED <<adbVars, logVars, shellVars, uiVars>>
    /\ timers > 0
    /\ LET fired == timers - 1
           seen == [monitoring |-> monitoring,
                    busy |-> check_in_progress \/ async_busy]
       IN  IF ~monitoring
           THEN /\ timers' = fired
                /\ tasks' = tasks
                /\ lastTick' = [monitoring |-> seen.monitoring, busy |-> seen.busy,
                                task |-> FALSE, rearm |-> 0]
           ELSE IF tick_skips
           THEN /\ timers' = Arm(fired, RetryDelay)
                /\ tasks' = tasks
                /\ lastTick' = [monitoring |-> seen.monitoring, busy |-> seen.busy,
                                task |-> FALSE, rearm |-> RetryDelay]
           ELSE LET r == safe_ensure_future("check", schedulable)
                IN  /\ tasks' = r.tasks
                    /\ timers' = IF r.task THEN fired
                                 ELSE Arm(fired, RetryDelay)
                    /\ lastTick' = [monitoring |-> seen.monitoring,
                                    busy |-> seen.busy,
                                    task |-> r.task,
                                    rearm |-> IF r.task THEN 0 ELSE RetryDelay]
    /\ UNCHANGED <<async_busy, monitoring, check_in_progress, devices, host,
                   emitted, uiCalls>>

(* The cache after the loops of _check_devices over the scanned list: every *)
(* scanned device is stored under its serial, every other key is deleted.   *)
cache_after(current) ==
    [s \in Serials |->
        LET idx == {i \in 1..Len(current) : current[i].serial = s}
        IN  IF idx = {} THEN Absent
            ELSE current[CHOOSE i \in idx : \A j \in idx : j <= i].state]

(* The signals _check_devices emits for the scanned list `current` *)
check_signals(current, hostAt) ==
    LET current_serials == {current[i].serial : i \in 1..Len(current)}
        previous_serials == {s \in Serials : devices[s] # Absent}
        new == {i \in 1..Len(current) : current[i].serial \notin previous_serials}
        gone == previous_serials \ current_serials
        devices_changed == new # {} \/ gone # {}
    IN  [valid |-> TRUE,
         attached |-> {s \in Serials : hostAt[s] # Absent},
         connected |-> {current[i].serial : i \in new},
         unauthorized |-> {current[i] : i \in {j \in new : ~is_authorized(current[j])}},
         disconnected |-> gone,
         changed |-> cache_after(current) # devices,
         updated |-> devices_changed]

(* A check that ends without the finally block that re-arms the timer *)
finish_check_no_rearm(t, current, hostAt) ==
    /\ devices' = cache_after(current)
    /\ emitted' = check_signals(current, hostAt)
    /\ check_in_progress' = FALSE
    /\ timers' = timers
    /\ async_busy' = FALSE
    /\ tasks' = Without(t)

(* The rest of _check_devices once scan_devices has returned `current`,     *)
(* then the finally blocks of _check_devices_and_reschedule and wrapped().  *)
finish_check(t, current, hostAt) ==
    /\ devices' = cache_after(current)
    /\ emitted' = check_signals(current, hostAt)
    /\ check_in_progress' = FALSE
    /\ timers' = IF monitoring THEN Arm(timers, DefaultInterval) ELSE timers
    /\ async_busy' = FALSE
    /\ tasks' = Without(t)

(* The first step of a task: wrapped() sets the flag and runs the           *)
(* coroutine up to its first await.                                         *)
task_start(t) ==
    /\ UNCHANGED <<adbVars, logVars, shellVars, uiVars>>
    /\ t \in Tasks
    /\ t.pc = "scheduled"
    /\ IF t.kind = "ui"
       THEN /\ async_busy' = TRUE
            /\ tasks' = Replace(t, [t EXCEPT !.pc = "await"])
            /\ UNCHANGED <<check_in_progress, timers>>
       ELSE IF check_in_progress
       THEN \* _check_devices returns at once; both finally blocks run
            /\ async_busy' = FALSE
            /\ tasks' = Without(t)
            /\ timers' = IF monitoring THEN Arm(timers, DefaultInterval)
                         ELSE timers
            /\ UNCHANGED check_in_progress
       ELSE /\ async_busy' = TRUE
            /\ check_in_progress' = TRUE
            /\ tasks' = Replace(t, [t EXCEPT !.pc = "get_devices"])
            /\ UNCHANGED timers
    /\ UNCHANGED <<monitoring, devices, host, lastTick, emitted, uiCalls>>

needs_device_info(current) ==
    \E i \in 1..Len(current) : current[i].state = "device"

(* `adb devices -l` returns with outcome `out` while the host has `host` *)
check_scan_body(t, out) ==
    /\ t \in Tasks
    /\ t.kind = "check"
    /\ t.pc = "get_devices"
    /\ LET current == scan_devices(out, HostListing(host))
       IN  IF needs_device_info(current)
           THEN /\ tasks' = Replace(t, [t EXCEPT !.pc = "get_device_info",
                                                  !.scan = current,
                                                  !.hostAt = host])
                /\ UNCHANGED <<async_busy, check_in_progress, timers, devices,
                               emitted>>
           ELSE finish_check(t, current, host)
    /\ UNCHANGED <<monitoring, host, lastTick, uiCalls>>

check_scan(t, out) ==
    /\ check_scan_body(t, out)
    /\ UNCHANGED <<adbVars, logVars, shellVars, uiVars>>

(* The getprop calls of scan_devices have returned (their failures are      *)
(* swallowed and change neither serial nor state)                           *)
check_info_body(t) ==
    /\ t \in Tasks
    /\ t.kind = "check"
    /\ t.pc = "get_device_info"
    /\ finish_check(t, t.scan, t.hostAt)
    /\ UNCHANGED <<monitoring, host, lastTick, uiCalls>>

check_info(t) ==
    /\ check_info_body(t)
    /\ UNCHANGED <<adbVars, logVars, shellVars, uiVars>>

(* A UI handler calls safe_ensure_future with its coroutine *)
ui_call ==
    /\ UNCHANGED <<adbVars, logVars, shellVars, uiVars>>
    /\ uiCalls < MaxUiOps
    /\ Count(UiTasks) < MaxUiTasks
    /\ tasks' = safe_ensure_future("ui", TRUE).tasks
    /\ uiCalls' = uiCalls + 1
    /\ UNCHANGED <<async_busy, monitoring, check_in_progress, timers, devices,
                   host, lastTick, emitted>>

(* A UI coroutine returns or raises: the finally block of wrapped() *)
ui_finish(t) ==
    /\ UNCHANGED <<adbVars, logVars, shellVars, uiVars>>
    /\ t \in Tasks
    /\ t.kind = "ui"
    /\ t.pc = "await"
    /\ async_busy' = FALSE
    /\ tasks' = Without(t)
    /\ UNCHANGED <<monitoring, check_in_progress, timers, devices, host,
                   lastTick, emitted, uiCalls>>

(* A device is plugged in, unplugged, or changes state *)
host_change(s, st) ==
    /\ UNCHANGED <<adbVars, logVars, shellVars, uiVars>>
    /\ host[s] # st
    /\ host' = [host EXCEPT ![s] = st]
    /\ UNCHANGED <<async_busy, tasks, monitoring, check_in_progress, timers,
                   devices, lastTick, emitted, uiCalls>>

----------------------------------------------------------------------------
(* core/logcat_streamer.py and gui/widgets/logcat_viewer.py: the filters of *)
(* a logcat stream                                                          *)

NoDevice == "none"
NoValue == ""
FilterKeys == {"level", "tag", "package"}

(* The values a filter is given: two of LogcatStreamer.LEVELS, a tag and a  *)
(* package name                                                             *)
FilterValues ==
    [level |-> {"W", "E"}, tag |-> {"ActivityManager"}, package |-> {"com.app"}]

(* A filters dict: the value of each key, NoValue for a key it does not hold *)
FilterDicts ==
    {f \in [FilterKeys -> {NoValue, "W", "E", "ActivityManager", "com.app"}] :
        \A k \in FilterKeys : f[k] \in FilterValues[k] \cup {NoValue}}

NoFilters == [k \in FilterKeys |-> NoValue]

(* The filters argument of start_streaming: left out (None) or a dict *)
FilterArgs ==
    {[given |-> FALSE, dict |-> NoFilters]} \cup
    {[given |-> TRUE, dict |-> f] : f \in FilterDicts}

NoStream ==
    [running |-> FALSE, default |-> FALSE, requested |-> NoFilters,
     level |-> NoValue, tag |-> NoValue, package |-> NoValue]

(* `filters or {}`: None and the empty dict both give the empty dict *)
filters_or_empty(arg) ==
    IF arg.given /\ arg.dict # NoFilters THEN arg.dict ELSE NoFilters

(* The body of LogcatStreamer.start_streaming past its guard: the filters   *)
(* are replaced by the argument, the command is built from their level and  *)
(* tag, and _stream_logcat filters by their package                         *)
begin_stream(arg) ==
    LET used == filters_or_empty(arg)
    IN  /\ streaming' = TRUE
        /\ filters' = used
        /\ stream' = [running |-> TRUE, default |-> ~arg.given,
                      requested |-> filters,
                      level |-> used["level"], tag |-> used["tag"],
                      package |-> used["package"]]

(* LogcatStreamer.start_streaming *)
start_streaming(arg) ==
    /\ ~streaming
    /\ begin_stream(arg)
    /\ UNCHANGED <<viewer_device, viewer_pending>>
    /\ UNCHANGED <<pollVars, adbVars, shellVars, uiVars>>

(* What set_filter makes of the filters f: only truthy arguments are stored *)
with_filter(f, level, tag, package) ==
    LET arg == [level |-> level, tag |-> tag, package |-> package]
    IN  [k \in FilterKeys |-> IF arg[k] # NoValue THEN arg[k] ELSE f[k]]

(* LogcatStreamer.set_filter *)
set_filter(level, tag, package) ==
    /\ filters' = with_filter(filters, level, tag, package)
    /\ UNCHANGED <<streaming, stream, viewer_device, viewer_pending>>
    /\ UNCHANGED <<pollVars, adbVars, shellVars, uiVars>>

(* LogcatStreamer.clear_filters *)
clear_filters ==
    /\ filters # NoFilters
    /\ filters' = NoFilters
    /\ UNCHANGED <<streaming, stream, viewer_device, viewer_pending>>
    /\ UNCHANGED <<pollVars, adbVars, shellVars, uiVars>>

(* The stream ends: LogcatStreamer.stop_streaming cancels the task, or      *)
(* _stream_logcat reads the end of the output or fails; its finally block   *)
(* clears the flag                                                          *)
end_stream ==
    /\ streaming' = FALSE
    /\ stream' = [stream EXCEPT !.running = FALSE]

(* LogcatStreamer.stop_streaming *)
stop_streaming ==
    /\ streaming
    /\ end_stream
    /\ UNCHANGED <<filters, viewer_device, viewer_pending>>
    /\ UNCHANGED <<pollVars, adbVars, shellVars, uiVars>>

(* LogcatStreamer._stream_logcat leaves its loop by itself *)
stream_logcat_ends ==
    /\ stream.running
    /\ end_stream
    /\ UNCHANGED <<filters, viewer_device, viewer_pending>>
    /\ UNCHANGED <<pollVars, adbVars, shellVars, uiVars>>

(* LogcatViewer._start_streaming_slot: the level and package chosen in the  *)
(* UI are applied to the streamer, then _start_streaming is scheduled       *)
viewer_start_streaming_slot(level, package) ==
    /\ viewer_pending = "none"
    /\ filters' = with_filter(with_filter(NoFilters, level, NoValue, NoValue),
                              NoValue, NoValue, package)
    /\ viewer_pending' = "start"
    /\ UNCHANGED <<streaming, stream, viewer_device>>
    /\ UNCHANGED <<pollVars, adbVars, shellVars, uiVars>>

(* LogcatViewer.set_device: a running stream is restarted on the new device *)
viewer_set_device(device) ==
    /\ viewer_pending = "none"
    /\ viewer_device # device
    /\ viewer_device' = device
    /\ viewer_pending' = IF streaming THEN "restart" ELSE "none"
    /\ UNCHANGED <<streaming, filters, stream>>
    /\ UNCHANGED <<pollVars, adbVars, shellVars, uiVars>>

(* LogcatViewer._restart_streaming up to the end of stop_streaming *)
viewer_restart_streaming ==
    /\ viewer_pending = "restart"
    /\ IF streaming THEN end_stream ELSE UNCHANGED <<streaming, stream>>
    /\ viewer_pending' = "start"
    /\ UNCHANGED <<filters, viewer_device>>
    /\ UNCHANGED <<pollVars, adbVars, shellVars, uiVars>>

(* LogcatViewer._start_streaming: start_streaming(self.current_device),     *)
(* without a filters argument                                               *)
viewer_start_streaming ==
    /\ viewer_pending = "start"
    /\ viewer_pending' = "none"
    /\ IF viewer_device # NoDevice /\ ~streaming
       THEN begin_stream([given |-> FALSE, dict |-> NoFilters])
       ELSE UNCHANGED <<streaming, filters, stream>>
    /\ UNCHANGED viewer_device
    /\ UNCHANGED <<pollVars, adbVars, shellVars, uiVars>>

----------------------------------------------------------------------------
(* core/shell_manager.py: the interactive shell session.  process is "none" *)
(* for None, "running" for a subprocess whose returncode is None and        *)
(* "exited" for a subprocess that has terminated by itself.  read_task is   *)
(* "none" when there is no task, else the point _read_output stands at:     *)
(* "top" before the loop condition, "stdout" and "stderr" before the two    *)
(* reads, "sleep" before asyncio.sleep, "done" after its finally block.     *)

Commands == {"ls", "cd /sdcard", " "}

strip_is_empty(command) == command = " "

(* ShellManager.start_shell *)
start_shell(device, spawned) ==
    /\ ~active
    /\ current_device' = device
    /\ IF spawned
       THEN /\ process' = "running"
            /\ active' = TRUE
            /\ read_task' = "top"
            /\ shell_stopped' = FALSE
            /\ stop_called' = FALSE
       ELSE /\ active' = FALSE
            /\ UNCHANGED <<process, read_task, shell_stopped, stop_called>>
    /\ UNCHANGED <<command_history, history_index>>
    /\ UNCHANGED <<pollVars, adbVars, logVars, uiVars>>

(* The finally block of _read_output *)
read_finally ==
    /\ read_task' = "done"
    /\ IF active
       THEN active' = FALSE /\ shell_stopped' = TRUE
       ELSE UNCHANGED <<active, shell_stopped>>

(* _read_output: the condition of its while loop *)
read_output_loop ==
    /\ read_task = "top"
    /\ IF active /\ process # "none"
       THEN read_task' = "stdout" /\ UNCHANGED <<active, shell_stopped>>
       ELSE read_finally
    /\ UNCHANGED <<process, current_device, command_history, history_index,
                   stop_called>>
    /\ UNCHANGED <<pollVars, adbVars, logVars, uiVars>>

(* What wait_for(readline(), 0.1) gives: a line, the timeout, or an         *)
(* exception of the stream while the subprocess runs; the empty bytes of    *)
(* the end of the stream once it has exited                                 *)
ReadOutcomes == IF process = "exited" THEN {"eof"} ELSE {"line", "timeout", "error"}

(* One read of _read_output at point from: a line is emitted, the timeout   *)
(* is passed over, an empty read is skipped by `if line:`; only an          *)
(* exception leaves the loop                                                *)
read_line(from, to, outcome) ==
    /\ read_task = from
    /\ outcome \in ReadOutcomes
    /\ IF outcome = "error"
       THEN read_finally
       ELSE read_task' = to /\ UNCHANGED <<active, shell_stopped>>
    /\ UNCHANGED <<process, current_device, command_history, history_index,
                   stop_called>>
    /\ UNCHANGED <<pollVars, adbVars, logVars, uiVars>>

(* _read_output: the read of stdout *)
read_stdout(outcome) == read_line("stdout", "stderr", outcome)

(* _read_output: the read of stderr *)
read_stderr(outcome) == read_line("stderr", "sleep", outcome)

(* _read_output: asyncio.sleep(0.01), then back to the loop condition *)
read_sleep ==
    /\ read_task = "sleep"
    /\ read_task' = "top"
    /\ UNCHANGED <<active, process, current_device, command_history,
                   history_index, shell_stopped, stop_called>>
    /\ UNCHANGED <<pollVars, adbVars, logVars, uiVars>>

(* ShellManager.execute_command *)
execute_command(command) ==
    /\ active /\ process # "none"
    /\ Len(command_history) < MaxHistory
    /\ command_history' =
          IF ~strip_is_empty(command) /\
             (command_history = <<>> \/
              command_history[Len(command_history)] # command)
          THEN Append(command_history, command)
          ELSE command_history
    /\ history_index' = Len(command_history')
    /\ UNCHANGED <<active, process, read_task, current_device, shell_stopped,
                   stop_called>>
    /\ UNCHANGED <<pollVars, adbVars, logVars, uiVars>>

(* ShellManager.get_history_prev: the index steps back, not below 0 *)
get_history_prev ==
    /\ command_history # <<>>
    /\ history_index' = IF history_index > 0 THEN history_index - 1
                        ELSE history_index
    /\ UNCHANGED <<active, process, read_task, current_device, command_history,
                   shell_stopped, stop_called>>
    /\ UNCHANGED <<pollVars, adbVars, logVars, uiVars>>

(* ShellManager.get_history_next: the index steps forward, not past the end *)
get_history_next ==
    /\ command_history # <<>>
    /\ history_index' = IF history_index < Len(command_history)
                        THEN history_index + 1 ELSE history_index
    /\ UNCHANGED <<active, process, read_task, current_device, command_history,
                   shell_stopped, stop_called>>
    /\ UNCHANGED <<pollVars, adbVars, logVars, uiVars>>

(* ShellManager.stop_shell: the read task is cancelled while _active is     *)
(* already False, so its finally block emits nothing                        *)
stop_shell ==
    /\ active
    /\ active' = FALSE
    /\ read_task' = "none"
    /\ process' = "none"
    /\ shell_stopped' = TRUE
    /\ stop_called' = TRUE
    /\ UNCHANGED <<current_device, command_history, history_index>>
    /\ UNCHANGED <<pollVars, adbVars, logVars, uiVars>>

(* The adb shell subprocess terminates by itself *)
process_exits ==
    /\ process = "running"
    /\ process' = "exited"
    /\ UNCHANGED <<active, read_task, current_device, command_history,
                   history_index, shell_stopped, stop_called>>
    /\ UNCHANGED <<pollVars, adbVars, logVars, uiVars>>

----------------------------------------------------------------------------
(* DeviceManager.connect_wireless.  A text is the sequence of its           *)
(* characters, so that `ip in device.serial` is a search for a substring.   *)

IpA == <<"1", "0", ".", "0", ".", "0", ".", "1">>
IpB == <<"1", "0", ".", "0", ".", "0", ".", "1", "1">>
Ips == {IpA, IpB}
Ports == {<<"5", "5", "5", "5">>, <<"4", "0", "0", "1">>}
UsbSerial == <<"R", "5", "8", "M">>

(* f"{ip}:{port}": the serial adb gives a device connected over TCP *)
Endpoint(ip, port) == ip \o <<":">> \o port

WirelessSerials == {Endpoint(ip, port) : ip \in Ips, port \in Ports}

(* Python's `part in text` for strings *)
contains(text, part) ==
    \E i \in 0..(Len(text) - Len(part)) :
        SubSeq(text, i + 1, i + Len(part)) = part

Listed(list) == {list[i] : i \in 1..Len(list)}

(* The rows `adb devices -l` prints for the listed serials *)
ListingOf(list) == [i \in 1..Len(list) |-> <<list[i], "device">>]

(* What a successful `adb connect ip:port` does to adb's list *)
attach(list, serial) ==
    IF serial \in Listed(list) THEN list ELSE Append(list, serial)

(* The outcomes `adb connect` is run against: it reports the connection,    *)
(* reports nothing of the kind, or fails                                    *)
ConnectOutcomes == ScanOutcomes \cup {[OkOutcome EXCEPT !.stdout = {"connected"}]}

NoWireless ==
    [called |-> FALSE, ip |-> <<>>, port |-> <<>>, found |-> FALSE,
     serial |-> <<>>]

(* The loop of connect_wireless over the scanned devices: the first device  *)
(* whose serial holds the ip                                                *)
first_with_ip(scanned, ip) ==
    LET hits == {i \in 1..Len(scanned) : contains(scanned[i].serial, ip)}
    IN  IF hits = {} THEN [found |-> FALSE, serial |-> <<>>]
        ELSE [found |-> TRUE,
              serial |-> scanned[CHOOSE i \in hits : \A j \in hits : i <= j].serial]

(* DeviceManager.connect_wireless(ip, port): `adb connect` ends with        *)
(* outcome out, the scan that follows with outcome scan_out                 *)
dm_connect_wireless(ip, port, out, scan_out) ==
    LET success == adb_connect_wireless(out).value.bool
        list == IF success THEN attach(adb_list, Endpoint(ip, port)) ELSE adb_list
        r == IF success
             THEN first_with_ip(scan_devices(scan_out, ListingOf(list)), ip)
             ELSE [found |-> FALSE, serial |-> <<>>]
    IN  /\ adb_list' = list
        /\ wireless' = [called |-> TRUE, ip |-> ip, port |-> port,
                        found |-> r.found, serial |-> r.serial]
        /\ UNCHANGED <<pollVars, adbVars, logVars, shellVars, refreshVars, widgetVars>>

(* A device is plugged in over USB *)
usb_attach ==
    /\ UsbSerial \notin Listed(adb_list)
    /\ adb_list' = Append(adb_list, UsbSerial)
    /\ UNCHANGED wireless
    /\ UNCHANGED <<pollVars, adbVars, logVars, shellVars, refreshVars, widgetVars>>

(* A listed device goes away *)
detach(i) ==
    /\ i \in 1..Len(adb_list)
    /\ adb_list' = SubSeq(adb_list, 1, i - 1) \o SubSeq(adb_list, i + 1, Len(adb_list))
    /\ UNCHANGED wireless
    /\ UNCHANGED <<pollVars, adbVars, logVars, shellVars, refreshVars, widgetVars>>

(* No refresh asked for yet *)
NoRefresh == [request |-> "none", applied |-> FALSE]

----------------------------------------------------------------------------
(* core/logcat_streamer.py: the tokenizer of one line of `logcat -v time`.  *)
(* A line is the sequence of its characters; Python's 0-based positions and *)
(* half-open slices are kept, so that find answers -1 when nothing is found *)

Blank == " "

RECURSIVE lstrip(_)
lstrip(text) ==
    IF text # <<>> /\ Head(text) = Blank THEN lstrip(Tail(text)) ELSE text

RECURSIVE rstrip(_)
rstrip(text) ==
    IF text # <<>> /\ text[Len(text)] = Blank
    THEN rstrip(SubSeq(text, 1, Len(text) - 1))
    ELSE text

(* str.strip() *)
strip(text) == rstrip(lstrip(text))

(* text[start:] and text[:stop] *)
slice_from(text, start) == SubSeq(text, start + 1, Len(text))

slice_to(text, stop) ==
    SubSeq(text, 1, IF stop < Len(text) THEN stop ELSE Len(text))

(* text[start:stop] *)
slice(text, start, stop) == slice_from(slice_to(text, stop), start)

(* text.find(char, start) *)
find(text, char, start) ==
    LET hits == {i \in start..(Len(text) - 1) : text[i + 1] = char}
    IN  IF hits = {} THEN -1 ELSE CHOOSE i \in hits : \A j \in hits : i <= j

(* text.split(None, maxsplit): the words between runs of blanks, the rest   *)
(* of the text after maxsplit words in one piece                            *)
RECURSIVE split(_, _)
split(text, maxsplit) ==
    LET body == lstrip(text)
        stop == find(body, Blank, 0)
    IN  IF body = <<>> THEN <<>>
        ELSE IF maxsplit = 0 \/ stop = -1 THEN <<body>>
        ELSE <<slice_to(body, stop)>> \o split(slice_from(body, stop), maxsplit - 1)

(* The dict of one log entry *)
Entry(timestamp, pid, tid, level, tag, message) ==
    [timestamp |-> timestamp, pid |-> pid, tid |-> tid, level |-> level,
     tag |-> tag, message |-> message]

(* What the tokenizer hands back: <<>> for None, <<entry>> for a dict *)
NoEntry == <<>>

(* LogcatStreamer._parse_threadtime *)
parse_threadtime(line) ==
    LET timestamp == slice_to(line, StampLen)
        rest == strip(slice_from(line, StampLen))
        parts == split(rest, MaxSplit)
        tag_and_msg == parts[5]
        colon == find(tag_and_msg, ":", 0)
    IN  IF Len(line) < MinThreadtimeLen THEN NoEntry
        ELSE IF Len(parts) < 5 THEN NoEntry
        ELSE IF colon # -1
             THEN <<Entry(timestamp, parts[1], parts[2], parts[3],
                          strip(slice_to(tag_and_msg, colon)),
                          strip(slice_from(tag_and_msg, colon + 1)))>>
             ELSE <<Entry(timestamp, parts[1], parts[2], parts[3],
                          <<>>, strip(tag_and_msg))>>

(* LogcatStreamer._parse_log_line *)
parse_log_line(line) ==
    LET timestamp == strip(slice_to(line, StampLen))
        rest == strip(slice_from(line, StampLen))
        level == rest[1]
        rest_after_slash == slice_from(rest, 2)
        paren_pos == find(rest_after_slash, "(", 0)
        colon_pos == find(rest_after_slash, ":", 0)
        paren_end == find(rest_after_slash, ")", paren_pos)
        message_start == find(rest_after_slash, ":", paren_end)
    IN  IF Len(line) < MinLineLen THEN NoEntry
        ELSE IF rest = <<>> THEN NoEntry
        ELSE IF Len(rest) < 2 \/ rest[2] # "/" THEN parse_threadtime(line)
        ELSE IF paren_pos # -1 /\ paren_pos < colon_pos
             THEN IF paren_end # -1
                  THEN IF message_start # -1
                       THEN <<Entry(timestamp,
                                    strip(slice(rest_after_slash, paren_pos + 1, paren_end)),
                                    <<>>, level,
                                    strip(slice_to(rest_after_slash, paren_pos)),
                                    strip(slice_from(rest_after_slash, message_start + 1)))>>
                       ELSE <<Entry(timestamp,
                                    strip(slice(rest_after_slash, paren_pos + 1, paren_end)),
                                    <<>>, level,
                                    strip(slice_to(rest_after_slash, paren_pos)),
                                    strip(slice_from(rest_after_slash, paren_end + 1)))>>
                  ELSE <<Entry(timestamp, <<>>, <<>>, level,
                               strip(slice_to(rest_after_slash, paren_pos)),
                               strip(slice_from(rest_after_slash, paren_pos)))>>
        ELSE IF colon_pos # -1
             THEN <<Entry(timestamp, <<>>, <<>>, level,
                          strip(slice_to(rest_after_slash, colon_pos)),
                          strip(slice_from(rest_after_slash, colon_pos + 1)))>>
             ELSE <<Entry(timestamp, <<>>, <<>>, level, strip(rest_after_slash), <<>>)>>

(* The lines the tokenizer is run against.  Stamp is '02-05 12:34:52.089'.  *)
Stamp ==
    <<"0", "2", "-", "0", "5", " ", "1", "2", ":", "3", "4", ":", "5", "2",
      ".", "0", "8", "9">>

Texts(chars, length) == UNION {[1..n -> chars] : n \in 0..length}

Levels == {"W", "E"}

Tags == Texts({"a", ":", Blank}, MaxTagLen)

Pids == Texts({"1", Blank}, MaxPidLen) \ {<<>>}

Messages == Texts({"m", ":", Blank}, MaxMessageLen)

(* '<stamp> L/TAG(PID): MESSAGE' *)
TimeLine(level, tag, pid, message) ==
    Stamp \o <<Blank, level, "/">> \o tag \o <<"(">> \o pid \o <<")", ":", Blank>>
          \o message

TimeLines ==
    {TimeLine(level, tag, pid, message) :
        level \in Levels, tag \in Tags, pid \in Pids, message \in Messages}

(* A line cut short, lines of `logcat -v threadtime` with and without a     *)
(* colon and with too few fields, lines of the time format without pid or   *)
(* colon, and a blank line                                                  *)
OtherLines ==
    { Stamp,
      <<Blank, Blank>>,
      Stamp \o <<Blank, "1", Blank, "2", Blank, "W", Blank, "a", ":", Blank, "m", Blank>>,
      Stamp \o <<Blank, "1", Blank, "2", Blank, "W", Blank, "a", Blank, "m", "m", "m", "m">>,
      Stamp \o <<Blank, "1", Blank, "2", Blank, "W", Blank, "a", "a", "a", "a", "a">>,
      Stamp \o <<Blank, "W", "/", "a", ":", Blank, "m">>,
      Stamp \o <<Blank, "W", "/", "a", "a">>,
      Stamp \o <<Blank, "W", "/", "a", "(", "1", ":", Blank, "m">>,
      Stamp \o <<Blank, "W", "/", "a", "(", "1", ")", Blank, "m", ":">> }

NoParse == [line |-> <<>>, entry |-> NoEntry]

(* LogcatStreamer._read_logs: one line read from logcat is decoded and       *)
(* stripped, skipped when nothing is left, and handed to the tokenizer      *)
ParseLogLine(raw) ==
    LET line_str == strip(raw)
    IN  /\ line_str # <<>>
        /\ parsed' = [line |-> line_str, entry |-> parse_log_line(line_str)]
        /\ UNCHANGED <<pollVars, adbVars, logVars, shellVars, wirelessVars, refreshVars, termVars, mdnsVars>>

----------------------------------------------------------------------------
(* gui/widgets/terminal_widget.py: the path the prompt shows.  A path and a *)
(* command are the sequences of their characters.                           *)

RootPath == <<"/">>

HomePath == <<"/", "d", "a", "t", "a", "/", "d", "a", "t", "a">>

NoStep == [op |-> "none", before |-> <<>>, command |-> <<>>]

(* text.rstrip('/') *)
RECURSIVE rstrip_slash(_)
rstrip_slash(text) ==
    IF text # <<>> /\ text[Len(text)] = "/"
    THEN rstrip_slash(SubSeq(text, 1, Len(text) - 1))
    ELSE text

(* text.split('/'): the pieces between the slashes, the empty ones kept *)
RECURSIVE split_slash(_)
split_slash(text) ==
    LET stop == find(text, "/", 0)
    IN  IF stop = -1 THEN <<text>>
        ELSE <<slice_to(text, stop)>> \o split_slash(slice_from(text, stop + 1))

(* "/".join(parts) *)
RECURSIVE join_slash(_)
join_slash(parts) ==
    IF parts = <<>> THEN <<>>
    ELSE IF Len(parts) = 1 THEN parts[1]
    ELSE parts[1] \o <<"/">> \o join_slash(Tail(parts))

(* The components of a path: its pieces between slashes that are not empty  *)
Components(path) == SelectSeq(split_slash(path), LAMBDA c : c # <<>>)

(* parts[:-1] *)
all_but_last(parts) == SubSeq(parts, 1, Len(parts) - 1)

(* The parent without the `or "/"` that follows the join *)
parent_path_no_root(path) ==
    join_slash(all_but_last(split_slash(rstrip_slash(path))))

(* "/".join(path.rstrip('/').split('/')[:-1]) or "/" *)
parent_path(path) ==
    LET joined == join_slash(all_but_last(split_slash(rstrip_slash(path))))
    IN  IF joined = <<>> THEN RootPath ELSE joined

(* TerminalWidget._update_path_from_cd: the path after the command *)
update_path_from_cd(path, command) ==
    LET parts == split(command, 1)
        new_path == strip(parts[2])
    IN  IF Len(parts) < 2 THEN HomePath
        ELSE IF new_path = <<"~">> \/ new_path = <<>> THEN HomePath
        ELSE IF new_path = <<"/">> THEN RootPath
        ELSE IF new_path[1] = "/" THEN new_path
        ELSE IF new_path = <<".", ".">>
             THEN IF path # RootPath THEN parent_path(path) ELSE path
        ELSE IF path = RootPath THEN <<"/">> \o new_path
        ELSE rstrip_slash(path) \o <<"/">> \o new_path

(* command.startswith('cd ') or command == 'cd' *)
is_cd(command) ==
    \/ command = <<"c", "d">>
    \/ slice_to(command, 3) = <<"c", "d", Blank>>

(* TerminalWidget._on_shell_started *)
on_shell_started ==
    /\ current_path' = RootPath
    /\ is_root' = FALSE
    /\ last_step' = [op |-> "started", before |-> current_path, command |-> <<>>]

(* The texts typed into the command line *)
Cd(arg) == <<"c", "d", Blank>> \o arg

TypedTexts ==
    { <<"c", "d", Blank>>, <<"l", "s">>, <<Blank>>,
      Cd(<<".", ".">>), Cd(<<"~">>), Cd(<<"/">>), Cd(<<"/", "a", "/">>),
      Cd(<<Blank, "a">>), Cd(<<"b", "/", "c">>) }

(* TerminalWidget._execute_command: the text of the command line is         *)
(* stripped, the path follows a cd, and _execute_and_prompt(command) is     *)
(* handed to safe_ensure_future as one more coroutine of the UI (what it    *)
(* does to the session is ShellManager.execute_command of the shell model); *)
(* reset_history_index ends the slot.                                       *)
execute_command_slot(text) ==
    LET command == strip(text)
        path == IF is_cd(command) THEN update_path_from_cd(current_path, command)
                ELSE current_path
    IN  /\ command # <<>>
        /\ active
        /\ Len(Components(path)) <= MaxDepth
        /\ async_busy \/ Count(UiTasks) < MaxUiTasks
        /\ current_path' = path
        /\ last_step' = IF is_cd(command)
                        THEN [op |-> "cd", before |-> current_path, command |-> command]
                        ELSE last_step
        /\ tasks' = safe_ensure_future("ui", TRUE).tasks
        /\ history_index' = Len(command_history)
        /\ UNCHANGED <<active, process, read_task, current_device, command_history,
                       shell_stopped, stop_called>>
        /\ UNCHANGED <<async_busy, monitoring, check_in_progress, timers, devices,
                       host, lastTick, emitted, uiCalls>>
        /\ UNCHANGED <<combo, term_device, is_root, term_request>>
        /\ UNCHANGED <<adbVars, logVars, wirelessVars, refreshVars, parseVars, mdnsVars>>

(* TerminalWidget._add_output, the slot of output_received: an output that  *)
(* holds '#' and 'root' (rootish) sets the root flag                        *)
add_output(rootish) ==
    /\ active /\ read_task # "none"
    /\ is_root' = (is_root \/ rootish)
    /\ last_step' = [op |-> "output", before |-> current_path, command |-> <<>>]
    /\ UNCHANGED <<combo, term_device, current_path, term_request>>
    /\ UNCHANGED <<pollVars, adbVars, logVars, shellVars, wirelessVars, refreshVars,
                   parseVars, mdnsVars>>

----------------------------------------------------------------------------
(* gui/widgets/terminal_widget.py and gui/main_window.py: the terminal and  *)
(* the device combo box that feeds it.  The combo lists the devices of the  *)
(* last devices_updated, which are the keys of DeviceManager._devices in    *)
(* the order they were inserted; its current text is a serial, or NoDevice  *)
(* for the entry 'No device selected'.                                      *)

TermDevices == {"s1", "s2"}

NoCombo == [items |-> <<>>, current |-> NoDevice]

TermTasks == {t \in Tasks : t.kind \in {"start_shell", "restart_shell", "stop_shell"}}

(* TerminalWidget.set_device: the device is stored, and a restart of the    *)
(* shell is handed to safe_ensure_future when a session is active           *)
set_device(device) ==
    [device |-> device,
     tasks |-> IF active THEN safe_ensure_future("restart_shell", TRUE).tasks
               ELSE tasks,
     request |-> IF active THEN device ELSE NoDevice]

(* The user activates entry i of the combo: MainWindow._device_changed *)
select_device(i) ==
    LET r == set_device(combo.items[i])
    IN  /\ i \in 1..Len(combo.items)
        /\ Count(TermTasks) < MaxTermTasks
        /\ combo' = [combo EXCEPT !.current = combo.items[i]]
        /\ term_device' = r.device
        /\ tasks' = r.tasks
        /\ term_request' = r.request
        /\ UNCHANGED <<async_busy, monitoring, check_in_progress, timers, devices,
                       host, lastTick, emitted, uiCalls>>
        /\ UNCHANGED <<current_path, is_root, last_step>>
        /\ UNCHANGED <<adbVars, logVars, shellVars, wirelessVars, refreshVars, parseVars, mdnsVars>>

(* TerminalWidget._start_shell_slot and _stop_shell_slot *)
shell_button(kind) ==
    /\ Count(TermTasks) < MaxTermTasks
    /\ tasks' = safe_ensure_future(kind, TRUE).tasks
    /\ UNCHANGED <<async_busy, monitoring, check_in_progress, timers, devices,
                   host, lastTick, emitted, uiCalls>>
    /\ UNCHANGED <<adbVars, logVars, shellVars, uiVars>>

start_shell_slot == shell_button("start_shell")

stop_shell_slot == shell_button("stop_shell")

(* What stop_shell leaves of the session *)
stopped_session ==
    /\ active' = FALSE
    /\ read_task' = "none"
    /\ process' = "none"
    /\ shell_stopped' = TRUE
    /\ stop_called' = TRUE

(* wrapped() around a coroutine of the terminal starts: the flag is set,    *)
(* stop_shell runs where the coroutine calls it, and _start_shell runs up   *)
(* to the await of create_subprocess_exec.  A coroutine that returns before *)
(* that await ends here, and wrapped() clears the flag.                     *)
term_task_start(t) ==
    LET stops == t.kind \in {"restart_shell", "stop_shell"} /\ active
        starts == /\ t.kind \in {"start_shell", "restart_shell"}
                  /\ term_device # NoDevice
                  /\ ~active'
    IN  /\ t \in TermTasks
        /\ t.pc = "scheduled"
        /\ IF stops THEN stopped_session
           ELSE UNCHANGED <<active, read_task, process, shell_stopped, stop_called>>
        /\ IF starts
           THEN /\ current_device' = term_device
                /\ async_busy' = TRUE
                /\ tasks' = Replace(t, [t EXCEPT !.pc = "spawn"])
           ELSE /\ UNCHANGED current_device
                /\ async_busy' = FALSE
                /\ tasks' = Without(t)
        /\ UNCHANGED <<command_history, history_index>>
        /\ UNCHANGED <<monitoring, check_in_progress, timers, devices, host,
                       lastTick, emitted, uiCalls>>
        /\ UNCHANGED <<adbVars, logVars, uiVars>>

(* ShellManager.start_shell after create_subprocess_exec: shell_started     *)
(* runs TerminalWidget._on_shell_started; a failed spawn ends in the        *)
(* except block.  Then wrapped() clears the flag.                           *)
term_spawn(t, spawned) ==
    /\ t \in TermTasks
    /\ t.pc = "spawn"
    /\ IF spawned
       THEN /\ process' = "running"
            /\ active' = TRUE
            /\ read_task' = "top"
            /\ shell_stopped' = FALSE
            /\ stop_called' = FALSE
            /\ on_shell_started
       ELSE /\ active' = FALSE
            /\ UNCHANGED <<process, read_task, shell_stopped, stop_called>>
            /\ UNCHANGED <<current_path, is_root, last_step>>
    /\ async_busy' = FALSE
    /\ tasks' = Without(t)
    /\ UNCHANGED <<current_device, command_history, history_index>>
    /\ UNCHANGED <<monitoring, check_in_progress, timers, devices, host,
                   lastTick, emitted, uiCalls>>
    /\ UNCHANGED <<combo, term_device, term_request>>
    /\ UNCHANGED <<adbVars, logVars, wirelessVars, refreshVars, parseVars, mdnsVars>>

(* self._devices after a scan: the known serials still listed keep their    *)
(* place, the new ones follow in the order of the scan                      *)
cache_order(known, scanned) ==
    SelectSeq(known, LAMBDA d : d \in Listed(scanned)) \o
    SelectSeq(scanned, LAMBDA d : d \notin Listed(known))

(* MainWindow._on_devices_updated: the combo is rebuilt; the selection is   *)
(* kept when its text is still there, else the first device is selected and *)
(* _device_changed is called with it                                        *)
on_devices_updated(listed) ==
    IF combo.current = NoDevice \/ combo.current \in Listed(listed)
    THEN [combo |-> [items |-> listed, current |-> combo.current],
          device |-> term_device, tasks |-> tasks, request |-> term_request]
    ELSE IF listed # <<>>
    THEN LET r == set_device(listed[1])
         IN  [combo |-> [items |-> listed, current |-> listed[1]],
              device |-> r.device, tasks |-> r.tasks, request |-> r.request]
    ELSE [combo |-> [items |-> listed, current |-> NoDevice],
          device |-> term_device, tasks |-> tasks, request |-> term_request]

(* DeviceManager._check_devices from its scan to its end, with the slot of  *)
(* devices_updated; a failed scan is the empty list.  Then the finally      *)
(* blocks of _check_devices_and_reschedule and of wrapped().                *)
check_devices_listed(t, ok) ==
    LET scanned == IF ok THEN adb_list ELSE <<>>
        changed == Listed(scanned) # Listed(combo.items)
        r == IF changed THEN on_devices_updated(cache_order(combo.items, scanned))
             ELSE [combo |-> combo, device |-> term_device, tasks |-> tasks,
                   request |-> term_request]
    IN  /\ t \in CheckTasks
        /\ t.pc = "get_devices"
        /\ combo' = r.combo
        /\ term_device' = r.device
        /\ term_request' = r.request
        /\ tasks' = r.tasks (-) SetToBag({t})
        /\ check_in_progress' = FALSE
        /\ timers' = IF monitoring THEN Arm(timers, DefaultInterval) ELSE timers
        /\ async_busy' = FALSE
        /\ UNCHANGED <<monitoring, devices, host, lastTick, emitted, uiCalls>>
        /\ UNCHANGED <<current_path, is_root, last_step>>
        /\ UNCHANGED <<adbVars, logVars, shellVars, wirelessVars, refreshVars, parseVars, mdnsVars>>

(* A device is attached to the host *)
plug(device) ==
    /\ device \notin Listed(adb_list)
    /\ adb_list' = attach(adb_list, device)
    /\ UNCHANGED wireless
    /\ UNCHANGED <<pollVars, adbVars, logVars, shellVars, refreshVars, widgetVars>>

----------------------------------------------------------------------------
(* gui/dialogs/connection_dialog.py: the mDNS pairing service of            *)
(* WirelessDialog.  _generate_pairing_qr starts a thread that runs          *)
(* _start_mdns_service while the GUI thread goes on; the steps of the two   *)
(* interleave at every access of the dialog's fields.  A Zeroconf instance  *)
(* and a ServiceInfo are named by the number of the thread that made them;  *)
(* 0 stands for a missing _zeroconf attribute and for None.                 *)

MdnsThreads == 1..MaxMdnsThreads

NoMdns ==
    [zeroconf |-> 0, service |-> 0,
     thread |-> [i \in MdnsThreads |-> "none"],
     registered |-> {}, zc_closed |-> {},
     generate_btn |-> TRUE, stop_btn |-> FALSE,
     stop_pc |-> "idle", closing |-> FALSE, dialog_closed |-> FALSE,
     stop_returned |-> FALSE]

(* WirelessDialog._generate_pairing_qr: the next thread is started *)
generate_pairing_qr(i) ==
    /\ mdns.generate_btn /\ ~mdns.dialog_closed /\ mdns.stop_pc = "idle"
    /\ mdns.thread[i] = "none"
    /\ \A j \in MdnsThreads : j < i => mdns.thread[j] # "none"
    /\ mdns' = [mdns EXCEPT !.thread[i] = "start", !.generate_btn = FALSE,
                            !.stop_btn = TRUE, !.stop_returned = FALSE]
    /\ UNCHANGED <<pollVars, adbVars, logVars, shellVars, wirelessVars, refreshVars,
                   parseVars, termVars>>

(* _start_mdns_service: self._zeroconf = Zeroconf(), which may raise *)
mdns_thread_make(i, ok) ==
    /\ mdns.thread[i] = "start"
    /\ mdns' = IF ok THEN [mdns EXCEPT !.zeroconf = i, !.thread[i] = "made"]
               ELSE [mdns EXCEPT !.thread[i] = "done"]
    /\ UNCHANGED <<pollVars, adbVars, logVars, shellVars, wirelessVars, refreshVars,
                   parseVars, termVars>>

(* _start_mdns_service: self._zeroconf.register_service(info), on the       *)
(* instance the field holds now; it raises on a closed instance             *)
mdns_thread_register(i, ok) ==
    /\ mdns.thread[i] = "made"
    /\ mdns' = IF ok /\ mdns.zeroconf \notin mdns.zc_closed
               THEN [mdns EXCEPT !.registered = @ \cup {<<mdns.zeroconf, i>>},
                                 !.thread[i] = "registered"]
               ELSE [mdns EXCEPT !.thread[i] = "done"]
    /\ UNCHANGED <<pollVars, adbVars, logVars, shellVars, wirelessVars, refreshVars,
                   parseVars, termVars>>

(* _start_mdns_service: self._mdns_service = info *)
mdns_thread_store(i) ==
    /\ mdns.thread[i] = "registered"
    /\ mdns' = [mdns EXCEPT !.service = i, !.thread[i] = "done"]
    /\ UNCHANGED <<pollVars, adbVars, logVars, shellVars, wirelessVars, refreshVars,
                   parseVars, termVars>>

(* _stop_mdns_service after its try statement: the buttons are reset and    *)
(* the call returns; closeEvent then closes the dialog                      *)
stop_returns(m) ==
    [m EXCEPT !.generate_btn = TRUE, !.stop_btn = FALSE, !.stop_pc = "idle",
              !.stop_returned = TRUE, !.dialog_closed = m.closing,
              !.closing = FALSE]

(* _stop_mdns_service is called by the Stop Service button or by            *)
(* closeEvent, and tests its fields                                         *)
stop_mdns_service(close) ==
    /\ mdns.stop_pc = "idle" /\ ~mdns.dialog_closed
    /\ close \/ mdns.stop_btn
    /\ mdns' = IF mdns.service # 0 /\ mdns.zeroconf # 0
               THEN [mdns EXCEPT !.stop_pc = "unregister", !.closing = close]
               ELSE stop_returns([mdns EXCEPT !.closing = close])
    /\ UNCHANGED <<pollVars, adbVars, logVars, shellVars, wirelessVars, refreshVars,
                   parseVars, termVars>>

(* self._zeroconf.unregister_service(self._mdns_service): a service that    *)
(* this instance does not hold may make the library raise, which ends the   *)
(* try statement                                                            *)
stop_unregister(raises) ==
    /\ mdns.stop_pc = "unregister"
    /\ raises => <<mdns.zeroconf, mdns.service>> \notin mdns.registered
    /\ mdns' = IF raises THEN stop_returns(mdns)
               ELSE [mdns EXCEPT !.registered = @ \ {<<mdns.zeroconf, mdns.service>>},
                                 !.stop_pc = "close"]
    /\ UNCHANGED <<pollVars, adbVars, logVars, shellVars, wirelessVars, refreshVars,
                   parseVars, termVars>>

(* self._zeroconf.close(): the instance drops every service it holds *)
stop_close ==
    /\ mdns.stop_pc = "close"
    /\ mdns' = [mdns EXCEPT !.registered = {r \in @ : r[1] # mdns.zeroconf},
                            !.zc_closed = @ \cup {mdns.zeroconf},
                            !.stop_pc = "clear"]
    /\ UNCHANGED <<pollVars, adbVars, logVars, shellVars, wirelessVars, refreshVars,
                   parseVars, termVars>>

(* self._mdns_service = None, and the rest of _stop_mdns_service *)
stop_clear ==
    /\ mdns.stop_pc = "clear"
    /\ mdns' = stop_returns([mdns EXCEPT !.service = 0])
    /\ UNCHANGED <<pollVars, adbVars, logVars, shellVars, wirelessVars, refreshVars,
                   parseVars, termVars>>

----------------------------------------------------------------------------
NoSignals ==
    [valid |-> FALSE, attached |-> {}, connected |-> {}, unauthorized |-> {},
     disconnected |-> {}, changed |-> FALSE, updated |-> FALSE]

NoTick == [monitoring |-> FALSE, busy |-> FALSE, task |-> FALSE, rearm |-> 0]

Init ==
    /\ async_busy = FALSE
    /\ tasks = EmptyBag
    /\ monitoring = FALSE
    /\ check_in_progress = FALSE
    /\ timers = 0
    /\ devices = [s \in Serials |-> Absent]
    /\ host \in [Serials -> DeviceStates \cup {Absent}]
    /\ lastTick = NoTick
    /\ emitted = NoSignals
    /\ uiCalls = 0
    /\ server_started = FALSE
    /\ call = NoCall
    /\ streaming = FALSE
    /\ filters = NoFilters
    /\ stream = NoStream
    /\ viewer_device = NoDevice
    /\ viewer_pending = "none"
    /\ active = FALSE
    /\ process = "none"
    /\ read_task = "none"
    /\ current_device = NoDevice
    /\ command_history = <<>>
    /\ history_index = -1
    /\ shell_stopped = FALSE
    /\ stop_called = FALSE
    /\ adb_list = <<>>
    /\ wireless = NoWireless
    /\ refresh = NoRefresh
    /\ parsed = NoParse
    /\ combo = NoCombo
    /\ term_device = NoDevice
    /\ current_path = RootPath
    /\ is_root = FALSE
    /\ term_request = NoDevice
    /\ last_step = NoStep
    /\ mdns = NoMdns

Next ==
    \/ start_monitoring
    \/ stop_monitoring
    \/ \E schedulable \in BOOLEAN : on_timer_tick(schedulable)
    \/ \E t \in Tasks : task_start(t)
    \/ \E t \in Tasks, out \in ScanOutcomes : check_scan(t, out)
    \/ \E t \in Tasks : check_info(t)
    \/ ui_call
    \/ \E t \in Tasks : ui_finish(t)
    \/ \E s \in Serials, st \in DeviceStates \cup {Absent} : host_change(s, st)

Spec == Init /\ [][Next]_vars


(* The loop runs every pending timer and every ready task, an adb command   *)
(* returns or runs into execute's timeout, and a UI coroutine finishes.     *)
Fairness ==
    /\ WF_vars(\E schedulable \in BOOLEAN : on_timer_tick(schedulable))
    /\ WF_vars(\E t \in Tasks : task_start(t))
    /\ WF_vars(\E t \in Tasks, out \in ScanOutcomes : check_scan(t, out))
    /\ WF_vars(\E t \in Tasks : check_info(t))
    /\ WF_vars(\E t \in Tasks : ui_finish(t))

FairSpec == Init /\ [][Next]_vars /\ Fairness

(* A device check runs to its end *)
CheckCompletes ==
    \/ \E t \in Tasks : check_info(t)
    \/ \E t \in Tasks, out \in ScanOutcomes :
          check_scan(t, out) /\ ~needs_device_info(scan_devices(out, HostListing(host)))

----------------------------------------------------------------------------
(* The manager operations called one at a time against an adb whose         *)
(* outcome is an input: a call runs to its end and hands its result to the  *)
(* caller before the next call is made                                      *)

(* ADBWrapper._start_server, awaited by execute while the server has not    *)
(* been started: a failure is logged and swallowed                          *)
start_server(started, out) ==
    started \/ execute(out, TRUE).exc = NoException

(* ADBWrapper.restart_server with the outcomes of kill-server and of         *)
(* start-server: the value it returns and _server_started when it returns.  *)
(* A failed kill-server leaves through the except clause; a failed          *)
(* start-server is swallowed by _start_server and True is returned.         *)
restart_server(started, ko, so) ==
    IF IsException(execute(ko, TRUE).exc)
    THEN [value |-> Bool(FALSE), started |-> started]
    ELSE [value |-> Bool(TRUE), started |-> start_server(FALSE, so)]

(* One call of operation op: execute starts the server if needed (outcome   *)
(* so), then the command runs with outcome out and the operation returns r  *)
Invoke(op, so, out, r) ==
    /\ call.op = "none"
    /\ server_started' = start_server(server_started, so)
    /\ call' = [op |-> op, out |-> out, exc |-> r.exc, value |-> r.value,
                signal |-> r.signal]
    /\ UNCHANGED <<pollVars, logVars, shellVars, uiVars>>

(* The outcome of start-server matters only while the server is not started *)
StartOutcomes == IF server_started THEN {OkOutcome} ELSE ScanOutcomes

HostListings == {HostListing(h) : h \in [Serials -> DeviceStates \cup {Absent}]}

(* ADBWrapper.execute called directly: what its caller observes *)
Execute ==
    \E so \in StartOutcomes, out \in AdbOutcomes :
        LET r == execute(out, FALSE)
        IN  Invoke("execute", so, out,
                   IF r.exc # NoException THEN Raised(r.exc)
                   ELSE Returned(Bool(TRUE), <<>>))

ScanDevices ==
    \E so \in StartOutcomes, out \in AdbOutcomes, rows \in HostListings :
        Invoke("scan_devices", so, out, dm_scan_devices(out, rows))

ListDirectory ==
    \E so \in StartOutcomes, out \in AdbOutcomes, lines \in LsOutputs :
        Invoke("list_directory", so, out, fm_list_directory(out, lines))

ListPackages ==
    \E so \in StartOutcomes, out \in AdbOutcomes, lines \in PmOutputs :
        Invoke("list_packages", so, out, am_list_packages(out, lines))

PushFile ==
    \E so \in StartOutcomes, out \in AdbOutcomes, stat_ok \in BOOLEAN :
        Invoke("push_file", so, out, fm_push_file(out, stat_ok))

PullFile ==
    \E so \in StartOutcomes, out \in AdbOutcomes :
        Invoke("pull_file", so, out, fm_pull_file(out))

InstallApk ==
    \E so \in StartOutcomes, out \in AdbOutcomes :
        Invoke("install_apk", so, out, am_install_apk(out))

UninstallPackage ==
    \E so \in StartOutcomes, out \in AdbOutcomes :
        Invoke("uninstall_package", so, out, am_uninstall_package(out))

PairWireless ==
    \E so \in StartOutcomes, out \in AdbOutcomes :
        Invoke("pair_wireless", so, out, dm_pair_wireless(out))

ConnectWireless ==
    \E so \in StartOutcomes, out \in AdbOutcomes :
        Invoke("connect_wireless", so, out, adb_connect_wireless(out))

(* ADBWrapper.restart_server called by the UI *)
RestartServer ==
    \E ko \in ScanOutcomes, so \in ScanOutcomes :
        LET r == restart_server(server_started, ko, so)
        IN  /\ call.op = "none"
            /\ server_started' = r.started
            /\ call' = [op |-> "restart_server", out |-> so, exc |-> NoException,
                        value |-> r.value, signal |-> <<>>]
            /\ UNCHANGED <<pollVars, logVars, shellVars, uiVars>>

(* The caller has taken the result of the call *)
Return ==
    /\ call.op # "none"
    /\ call' = NoCall
    /\ UNCHANGED <<pollVars, server_started, logVars, shellVars, uiVars>>

ManagerOps ==
    {"scan_devices", "list_directory", "list_packages", "push_file", "pull_file",
     "install_apk", "uninstall_package", "pair_wireless", "connect_wireless"}

AdbNext ==
    \/ Execute
    \/ ScanDevices
    \/ ListDirectory
    \/ ListPackages
    \/ PushFile
    \/ PullFile
    \/ InstallApk
    \/ UninstallPackage
    \/ PairWireless
    \/ ConnectWireless
    \/ RestartServer
    \/ Return

IdleInit == Init /\ host = [s \in Serials |-> Absent]

AdbSpec == IdleInit /\ [][AdbNext]_vars

----------------------------------------------------------------------------
(* The logcat streamer and its viewer *)

LogcatNext ==
    \/ \E arg \in FilterArgs : start_streaming(arg)
    \/ \E level \in FilterValues["level"] \cup {NoValue},
          tag \in FilterValues["tag"] \cup {NoValue},
          package \in FilterValues["package"] \cup {NoValue} :
          set_filter(level, tag, package)
    \/ clear_filters
    \/ stop_streaming
    \/ stream_logcat_ends
    \/ \E level \in FilterValues["level"] \cup {NoValue},
          package \in FilterValues["package"] \cup {NoValue} :
          viewer_start_streaming_slot(level, package)
    \/ \E device \in Serials : viewer_set_device(device)
    \/ viewer_restart_streaming
    \/ viewer_start_streaming

LogcatSpec == IdleInit /\ [][LogcatNext]_vars

----------------------------------------------------------------------------
(* The shell session.  The event loop runs a task that is ready: every step *)
(* of _read_output that stays possible is eventually taken.  The user and   *)
(* the subprocess are under no such obligation.                             *)

ShellNext ==
    \/ \E device \in Serials, spawned \in BOOLEAN : start_shell(device, spawned)
    \/ read_output_loop
    \/ \E outcome \in {"line", "timeout", "error", "eof"} : read_stdout(outcome)
    \/ \E outcome \in {"line", "timeout", "error", "eof"} : read_stderr(outcome)
    \/ read_sleep
    \/ \E command \in Commands : execute_command(command)
    \/ get_history_prev
    \/ get_history_next
    \/ stop_shell
    \/ process_exits

ShellFairness ==
    /\ WF_vars(read_output_loop)
    /\ WF_vars(\E outcome \in {"line", "timeout", "error", "eof"} : read_stdout(outcome))
    /\ WF_vars(\E outcome \in {"line", "timeout", "error", "eof"} : read_stderr(outcome))
    /\ WF_vars(read_sleep)

ShellSpec == IdleInit /\ [][ShellNext]_vars /\ ShellFairness

----------------------------------------------------------------------------
(* Wireless connections made through the DeviceManager *)

WirelessNext ==
    \/ \E ip \in Ips, port \in Ports, out \in ConnectOutcomes, scan_out \in ScanOutcomes :
          dm_connect_wireless(ip, port, out, scan_out)
    \/ usb_attach
    \/ \E i \in DOMAIN adb_list : detach(i)

WirelessSpec == IdleInit /\ [][WirelessNext]_vars

----------------------------------------------------------------------------
(* gui/main_window.py: the ways the user asks for a refresh of the device   *)
(* list.  The class defines _refresh_devices twice; the second definition   *)
(* (a slot that shows a status message) replaces the first (the coroutine   *)
(* that scans and calls _on_devices_updated), so every use of               *)
(* self._refresh_devices is a call of the slot, and returns None.           *)

(* MainWindow._refresh_devices, as bound in the class: the status bar shows *)
(* a message; nothing is scanned                                            *)
refresh_devices_slot(source) == refresh' = [request |-> source, applied |-> FALSE]

(* The Refresh button or File > Refresh Devices is activated *)
refresh_clicked(source) ==
    /\ source \in {"button", "menu"}
    /\ refresh_devices_slot(source)
    /\ UNCHANGED <<pollVars, adbVars, logVars, shellVars, wirelessVars, widgetVars>>

(* MainWindow._on_device_unauthorized once the dialog is closed by          *)
(* `choice`: the tasks after its safe_ensure_future call.  Restart ADB      *)
(* hands over the coroutine _restart_adb_and_refresh; Retry hands over the  *)
(* None that the slot returned, which is wrapped like a coroutine when the  *)
(* flag is clear and fails on .close() when it is set.                      *)
unauthorized_dialog(choice, rest) ==
    IF choice = "close" \/ async_busy THEN rest
    ELSE rest (+) SetToBag({NewTask(choice)})

(* MainWindow._on_devices_updated is the slot of devices_updated: when the   *)
(* check that ends in this step emits it, the scanned list is applied to    *)
(* the device selector, whatever refresh r was asked for before             *)
applied_by(r) ==
    IF /\ r.request # "none"
       /\ check_in_progress /\ ~check_in_progress'
       /\ emitted'.updated
    THEN [r EXCEPT !.applied = TRUE]
    ELSE r

(* The adb devices call of a check returns a device that is new and not     *)
(* authorized: _check_devices emits device_unauthorized, the dialog of      *)
(* _on_device_unauthorized is answered with `choice`, and the check runs to *)
(* its end through the finally blocks                                       *)
check_scan_unauthorized(t, out, choice) ==
    /\ t \in Tasks
    /\ t.kind = "check"
    /\ t.pc = "get_devices"
    /\ LET current == scan_devices(out, HostListing(host))
       IN  /\ ~needs_device_info(current)
           /\ check_signals(current, host).unauthorized # {}
           /\ devices' = cache_after(current)
           /\ emitted' = check_signals(current, host)
           /\ check_in_progress' = FALSE
           /\ timers' = IF monitoring THEN Arm(timers, DefaultInterval) ELSE timers
           /\ async_busy' = FALSE
           /\ tasks' = unauthorized_dialog(choice, Without(t))
    /\ refresh' = applied_by(IF choice = "close" THEN refresh
                              ELSE [request |-> choice, applied |-> FALSE])
    /\ UNCHANGED <<monitoring, host, lastTick, uiCalls>>
    /\ UNCHANGED <<adbVars, logVars, shellVars, wirelessVars, widgetVars>>

(* A check whose scan shows no new unauthorized device: no dialog *)
check_scan_quiet(t, out) ==
    /\ check_signals(scan_devices(out, HostListing(host)), host).unauthorized = {}
    /\ check_scan_body(t, out)
    /\ refresh' = applied_by(refresh)
    /\ UNCHANGED <<adbVars, logVars, shellVars, wirelessVars, widgetVars>>

(* A check ends after the getprop calls *)
check_info_applied(t) ==
    /\ check_info_body(t)
    /\ refresh' = applied_by(refresh)
    /\ UNCHANGED <<adbVars, logVars, shellVars, wirelessVars, widgetVars>>

(* wrapped() starts for _restart_adb_and_refresh: the flag is set and the   *)
(* coroutine awaits restart_server                                          *)
restart_task_start(t) ==
    /\ t \in Tasks
    /\ t.kind = "restart"
    /\ t.pc = "scheduled"
    /\ async_busy' = TRUE
    /\ tasks' = Replace(t, [t EXCEPT !.pc = "restart_server"])
    /\ UNCHANGED <<monitoring, check_in_progress, timers, devices, host,
                   lastTick, emitted, uiCalls>>
    /\ UNCHANGED <<adbVars, logVars, shellVars, uiVars>>

(* restart_server returns to _restart_adb_and_refresh.  On True it goes on  *)
(* to `await self._refresh_devices()`: the slot runs and the await of its   *)
(* None raises TypeError, which wrapped() logs.  On False it shows a        *)
(* message.  Either way wrapped() ends and clears the flag.                 *)
restart_task_finish(t, ko, so) ==
    /\ t \in Tasks
    /\ t.kind = "restart"
    /\ t.pc = "restart_server"
    /\ server_started' = restart_server(server_started, ko, so).started
    /\ async_busy' = FALSE
    /\ tasks' = Without(t)
    /\ UNCHANGED <<monitoring, check_in_progress, timers, devices, host,
                   lastTick, emitted, uiCalls>>
    /\ UNCHANGED <<call, logVars, shellVars, uiVars>>

(* wrapped() runs for Retry: it sets the flag, the await of None raises     *)
(* TypeError, which it logs, and its finally block clears the flag          *)
retry_task_run(t) ==
    /\ t \in Tasks
    /\ t.kind = "retry"
    /\ t.pc = "scheduled"
    /\ async_busy' = FALSE
    /\ tasks' = Without(t)
    /\ UNCHANGED <<monitoring, check_in_progress, timers, devices, host,
                   lastTick, emitted, uiCalls>>
    /\ UNCHANGED <<adbVars, logVars, shellVars, uiVars>>

RefreshNext ==
    \/ start_monitoring
    \/ \E schedulable \in BOOLEAN : on_timer_tick(schedulable)
    \/ \E t \in CheckTasks \cup UiTasks : task_start(t)
    \/ \E t \in Tasks, out \in ScanOutcomes : check_scan_quiet(t, out)
    \/ \E t \in Tasks, out \in ScanOutcomes, choice \in {"restart", "retry", "close"} :
          check_scan_unauthorized(t, out, choice)
    \/ \E t \in Tasks : check_info_applied(t)
    \/ ui_call
    \/ \E t \in Tasks : ui_finish(t)
    \/ \E s \in Serials, st \in DeviceStates \cup {Absent} : host_change(s, st)
    \/ \E source \in {"button", "menu"} : refresh_clicked(source)
    \/ \E t \in Tasks : restart_task_start(t)
    \/ \E t \in Tasks, ko \in ScanOutcomes, so \in ScanOutcomes :
          restart_task_finish(t, ko, so)
    \/ \E t \in Tasks : retry_task_run(t)

(* The event loop runs every ready callback and every task that can go on;  *)
(* the user and the devices are under no obligation                         *)
RefreshFairness ==
    /\ WF_vars(\E schedulable \in BOOLEAN : on_timer_tick(schedulable))
    /\ WF_vars(\E t \in CheckTasks \cup UiTasks : task_start(t))
    /\ WF_vars(\E t \in Tasks, out \in ScanOutcomes : check_scan_quiet(t, out))
    /\ WF_vars(\E t \in Tasks, out \in ScanOutcomes,
                  choice \in {"restart", "retry", "close"} :
                  check_scan_unauthorized(t, out, choice))
    /\ WF_vars(\E t \in Tasks : check_info_applied(t))
    /\ WF_vars(\E t \in Tasks : ui_finish(t))
    /\ WF_vars(\E t \in Tasks : restart_task_start(t))
    /\ WF_vars(\E t \in Tasks, ko \in ScanOutcomes, so \in ScanOutcomes :
                  restart_task_finish(t, ko, so))
    /\ WF_vars(\E t \in Tasks : retry_task_run(t))

RefreshSpec == Init /\ [][RefreshNext]_vars /\ RefreshFairness

----------------------------------------------------------------------------
(* The tokenizer run on one line after another *)
ParseNext == \E line \in TimeLines \cup OtherLines : ParseLogLine(line)

ParseSpec == IdleInit /\ [][ParseNext]_vars

----------------------------------------------------------------------------
(* The terminal beside the polling loop *)
TermNext ==
    \/ start_monitoring
    \/ \E schedulable \in BOOLEAN : on_timer_tick(schedulable)
    \/ \E t \in CheckTasks : task_start(t)
    \/ \E t \in CheckTasks, ok \in BOOLEAN : check_devices_listed(t, ok)
    \/ \E device \in TermDevices : plug(device)
    \/ \E i \in DOMAIN adb_list : detach(i)
    \/ \E i \in DOMAIN combo.items : select_device(i)
    \/ start_shell_slot
    \/ stop_shell_slot
    \/ \E t \in TermTasks : term_task_start(t)
    \/ \E t \in TermTasks, spawned \in BOOLEAN : term_spawn(t, spawned)

TermFairness ==
    /\ WF_vars(\E schedulable \in BOOLEAN : on_timer_tick(schedulable))
    /\ WF_vars(\E t \in CheckTasks : task_start(t))
    /\ WF_vars(\E t \in CheckTasks, ok \in BOOLEAN : check_devices_listed(t, ok))
    /\ WF_vars(\E t \in TermTasks : term_task_start(t))
    /\ WF_vars(\E t \in TermTasks, spawned \in BOOLEAN : term_spawn(t, spawned))

TermSpec == IdleInit /\ [][TermNext]_vars /\ TermFairness

----------------------------------------------------------------------------
(* The pairing dialog: the GUI thread and the threads it starts *)
MdnsNext ==
    \/ \E i \in MdnsThreads : generate_pairing_qr(i)
    \/ \E i \in MdnsThreads, ok \in BOOLEAN : mdns_thread_make(i, ok)
    \/ \E i \in MdnsThreads, ok \in BOOLEAN : mdns_thread_register(i, ok)
    \/ \E i \in MdnsThreads : mdns_thread_store(i)
    \/ \E close \in BOOLEAN : stop_mdns_service(close)
    \/ \E raises \in BOOLEAN : stop_unregister(raises)
    \/ stop_close
    \/ stop_clear

MdnsSpec == IdleInit /\ [][MdnsNext]_vars

----------------------------------------------------------------------------
(* The terminal with a device selected: s1 was attached, the first device   *)
(* check listed it and the user picked it in the combo                      *)
PathInit ==
    /\ async_busy = FALSE
    /\ tasks = EmptyBag
    /\ monitoring = TRUE
    /\ check_in_progress = FALSE
    /\ timers = 1
    /\ devices = [s \in Serials |-> Absent]
    /\ host = [s \in Serials |-> Absent]
    /\ lastTick = [monitoring |-> TRUE, busy |-> FALSE, task |-> TRUE, rearm |-> 0]
    /\ emitted = NoSignals
    /\ uiCalls = 0
    /\ server_started = FALSE
    /\ call = NoCall
    /\ streaming = FALSE
    /\ filters = NoFilters
    /\ stream = NoStream
    /\ viewer_device = NoDevice
    /\ viewer_pending = "none"
    /\ active = FALSE
    /\ process = "none"
    /\ read_task = "none"
    /\ current_device = NoDevice
    /\ command_history = <<>>
    /\ history_index = -1
    /\ shell_stopped = FALSE
    /\ stop_called = FALSE
    /\ adb_list = <<"s1">>
    /\ wireless = NoWireless
    /\ refresh = NoRefresh
    /\ parsed = NoParse
    /\ combo = [items |-> <<"s1">>, current |-> "s1"]
    /\ term_device = "s1"
    /\ current_path = RootPath
    /\ is_root = FALSE
    /\ term_request = NoDevice
    /\ last_step = NoStep
    /\ mdns = NoMdns

PathNext ==
    \/ start_shell_slot
    \/ stop_shell_slot
    \/ \E t \in TermTasks : term_task_start(t)
    \/ \E t \in TermTasks, spawned \in BOOLEAN : term_spawn(t, spawned)
    \/ \E text \in TypedTexts : execute_command_slot(text)
    \/ \E t \in UiTasks : task_start(t)
    \/ \E t \in UiTasks : ui_finish(t)
    \/ \E rootish \in BOOLEAN : add_output(rootish)

PathSpec == PathInit /\ [][PathNext]_vars

----------------------------------------------------------------------------
(* Claims *)

(* C1: at most one coroutine wrapped by safe_ensure_future is in progress  *)
(* (started and not yet finished) at any time.                             *)
C1_AtMostOneInProgress == Count(InProgress) <= 1

(* C3: a tick that fires while a device check is in progress or the busy   *)
(* flag is set starts no device check and, the polling being enabled, only *)
(* re-arms itself with the 500 ms delay; and no two executions of          *)
(* _check_devices are in progress at once.                                 *)
C3_SkipIfBusy ==
    /\ lastTick.busy => ~lastTick.task
    /\ lastTick.busy /\ lastTick.monitoring => lastTick.rearm = RetryDelay
    /\ Count(ChecksInProgress) <= 1

C3_Witness ==
    /\ lastTick.busy /\ lastTick.monitoring
    /\ ~lastTick.task /\ lastTick.rearm = RetryDelay
    /\ Count(ChecksInProgress) = 1
    /\ timers > 0

AdbFailed(out) ==
    ~out.spawn \/ out.timeout \/ check_errors(out.stderr) # NoException

(* C2: a condition _check_errors detects reaches the caller of execute as  *)
(* its own exception type (checked in priority order), not as ADBError.    *)
C2_DistinctExceptionTypes ==
    /\ call.op = "execute"
    /\ call.out.spawn /\ ~call.out.timeout
    /\ check_errors(call.out.stderr) # NoException
    => call.exc = check_errors(call.out.stderr)

C6_CacheMatchesHost ==
    emitted.valid => {s \in Serials : devices[s] # Absent} = emitted.attached

(* C7: every device check that changed the cached device list in any way   *)
(* emitted devices_updated.                                                *)
C7_UpdatedOnEveryChange == emitted.valid /\ emitted.changed => emitted.updated

(* C8: device_unauthorized is emitted only for a device whose scanned      *)
(* state is 'unauthorized'.                                                *)
C8_UnauthorizedOnly == \A d \in emitted.unauthorized : d.state = "unauthorized"


----------------------------------------------------------------------------
(* C9: a stream that start_streaming begins without a filters argument uses *)
(* the filters stored before by set_filter: its command carries their level *)
(* and tag, and its lines are filtered by their package.                    *)
C9_StoredFiltersUsed ==
    stream.running /\ stream.default =>
        /\ stream.level = stream.requested["level"]
        /\ stream.tag = stream.requested["tag"]
        /\ stream.package = stream.requested["package"]

(* C10: once the subprocess of an active session has exited by itself, the  *)
(* session eventually stops being active and shell_stopped is emitted.      *)
C10_ExitDetected ==
    [](active /\ process = "exited" => <>(~active /\ shell_stopped))

(* C11: restart_server returns True only if start-server succeeded, so that *)
(* _server_started is True when it returns.                                 *)
C11_TrueOnlyIfStarted ==
    call.op = "restart_server" /\ call.value = Bool(TRUE) => server_started

(* C12: push_file and pull_file return True only when the adb command       *)
(* exited with return code 0, and transfer_complete carries the value they  *)
(* return.                                                                  *)
C12_TrueOnlyOnSuccess ==
    call.op \in {"push_file", "pull_file"} =>
        /\ call.value = Bool(TRUE) => call.out.rc = 0
        /\ call.signal = <<call.value.bool>>

(* C13: connect_wireless(ip, port) returns None or the device whose serial  *)
(* is exactly ip:port.                                                      *)
C13_ExactEndpoint ==
    wireless.called /\ wireless.found =>
        wireless.serial = Endpoint(wireless.ip, wireless.port)

(* C14: every refresh the user asks for (Refresh button, File > Refresh     *)
(* Devices, Retry or Restart ADB in the dialog) is eventually followed by a *)
(* device scan whose result is applied through _on_devices_updated, by the  *)
(* request's own coroutine or by the polling loop that runs beside it.      *)
C14_RefreshScans ==
    [](monitoring /\ refresh.request # "none" => <>refresh.applied)

(* C15: for every line '<18-character stamp> L/TAG(PID): MESSAGE' in which  *)
(* TAG holds no '(', the tokenizer returns the stamp as timestamp, L as     *)
(* level, TAG as tag, PID without its surrounding blanks as pid and MESSAGE *)
(* without its surrounding blanks as message.                               *)
C15_TimeFormatSplit ==
    \A level \in Levels, tag \in Tags, pid \in Pids, message \in Messages :
        parsed.line = TimeLine(level, tag, pid, message) =>
            /\ parsed.entry # NoEntry
            /\ parsed.entry[1].timestamp = Stamp
            /\ parsed.entry[1].level = level
            /\ parsed.entry[1].tag = tag
            /\ parsed.entry[1].pid = strip(pid)
            /\ parsed.entry[1].message = strip(message)

(* C16: whenever TerminalWidget.set_device(d) is called while a shell       *)
(* session is active, the shell manager's current device eventually is d,   *)
(* unless a later set_device takes the request over.                        *)
C16_ShellFollowsDevice ==
    \A d \in TermDevices :
        [](term_request = d => <>(current_device = d \/ term_request # d))

(* C17: once _stop_mdns_service has returned, and until the next QR code is *)
(* generated, no mDNS service registered by the dialog is registered.       *)
C17_StopUnregisters ==
    mdns.stop_returned => mdns.registered = {}

(* The argument of a cd command: what follows 'cd', without the blanks      *)
(* around it                                                                *)
CdArg(command) == strip(slice_from(command, 2))

(* C18: the path of the terminal is never empty and begins with '/'; after  *)
(* a shell start it is '/' and the root flag is False; after a cd command   *)
(* it is '/' for 'cd ..' at '/', the path before without its last component *)
(* for 'cd ..' elsewhere, '/data/data' for 'cd' and 'cd ~', the argument    *)
(* when that is absolute, and else the path before with the argument        *)
(* appended behind one '/'.                                                 *)
C18_PathTracker ==
    /\ current_path # <<>>
    /\ Head(current_path) = "/"
    /\ last_step.op = "started" => current_path = RootPath /\ ~is_root
    /\ last_step.op = "cd" =>
          LET arg == CdArg(last_step.command)
              before == last_step.before
          IN  IF arg = <<".", ".">>
              THEN IF before = RootPath THEN current_path = RootPath
                   ELSE Components(current_path) = all_but_last(Components(before))
              ELSE IF arg = <<>> \/ arg = <<"~">> THEN current_path = HomePath
              ELSE IF Head(arg) = "/" THEN current_path = arg
              ELSE /\ Components(current_path) = Components(before) \o Components(arg)
                   /\ ~contains(arg, <<"/">>) =>
                          Components(current_path) = Append(Components(before), arg)
                   /\ SubSeq(current_path, Len(current_path) - Len(arg),
                             Len(current_path)) = <<"/">> \o arg

(* C18 witness: 'cd ..' in /b/c has led to /b, in a session whose output    *)
(* has set the root flag                                                    *)
C18_Witness ==
    /\ last_step.op = "cd"
    /\ CdArg(last_step.command) = <<".", ".">>
    /\ last_step.before = <<"/", "b", "/", "c">>
    /\ current_path = <<"/", "b">>
    /\ is_root

====
